---- MODULE Spec2Model ----
(***************************************************************************)
(* Recurring expense generation of the alquileres backend.                 *)
(*                                                                         *)
(* The store holds expense documents under                                 *)
(*   properties/{propertyId}/expenses/{year-month}/items/{docId}           *)
(* and AlquileresRecurringService.generateRecurringRecords copies the      *)
(* documents flagged isRecurring of a source period into a target period.  *)
(* Every await of the service is one step of a run, so that two runs can   *)
(* interleave between their store reads and writes.                        *)
(***************************************************************************)
EXTENDS Integers, Sequences, FiniteSets, TLC

(***************************************************************************)
(* Bounds of the model.                                                    *)
(***************************************************************************)
\* documents the store holds before the first run
MaxInit == 2
\* invocations of the service in one behaviour
MaxRuns == 2
\* store operations that fail in one behaviour
MaxFaults == 1

VARIABLES
    properties,   \* ids of the documents of the collection `properties`
    units,        \* the documents of the collection `units`
    incomes,      \* the income documents, one per unit and period
    expenses,     \* the expense documents, each with its place in the store
    nextId,       \* the next document id the store hands out
    run,          \* per invocation slot: the position and locals of a generate call
    started,      \* invocations of the service so far
    faults,       \* store operations that failed so far
    log,          \* the value each finished generate call returned, with its context
    written,      \* every targetCollection.add that succeeded: source item and new document
    answer        \* what the last summary, validation, enumeration or toggle returned

vars == <<properties, units, incomes, expenses, nextId, run, started, faults, log,
          written, answer>>

(***************************************************************************)
(* Values.  A field that is absent from a document is a sentinel of the    *)
(* field's type: 0 for an id, "absent" for isRecurring, FALSE for the      *)
(* presence of a payment field, "" for dueDate, <<>> for generatedFrom.    *)
(* A timestamp is the number of the invocation that wrote it, 0 for a      *)
(* document entered before the first invocation.                           *)
(***************************************************************************)
Slots == {1, 2}

PropertyOrder == <<"p1", "p2">>

PropertyIds == {PropertyOrder[k] : k \in 1..Len(PropertyOrder)}

NoLineage == <<>>

\* The user-entered expenses the store can start with (README "Estructura
\* de Datos Recomendada": no id field inside the document).
Template(description, amount, isRecurring, isActive, paid, dueDate) ==
    [id |-> 0, description |-> description, amount |-> amount,
     isRecurring |-> isRecurring, isActive |-> isActive,
     paymentDate |-> paid, paidDate |-> paid, receipt |-> paid,
     referenceNumber |-> paid, year |-> 0, month |-> 0,
     dueDate |-> dueDate, createdAt |-> 0, updatedAt |-> 0,
     generatedFrom |-> NoLineage]

Templates ==
    << Template("Rent", 500, "true", TRUE, TRUE, "2025-11-15"),
       Template("Rent", 500, "true", FALSE, FALSE, ""),
       Template("Repair", 80, "false", TRUE, TRUE, "2025-11-30"),
       Template("Rent", 80, "absent", FALSE, FALSE, "") >>

\* Periods that hold user-entered documents at the start.
InitPeriods == << <<2025, 11>>, <<2025, 12>> >>

(***************************************************************************)
(* utils/hierarchicalPath: period keys and collection references.          *)
(***************************************************************************)
Digits == <<"0", "1", "2", "3", "4", "5", "6", "7", "8", "9">>

RECURSIVE NumToString(_)
\* Number.prototype.toString of a non-negative integer
NumToString(n) ==
    IF n < 10 THEN Digits[n + 1]
    ELSE NumToString(n \div 10) \o Digits[(n % 10) + 1]

\* String.prototype.padStart(2, '0')
PadStart2(s) == IF Len(s) < 2 THEN "0" \o s ELSE s

\* `${year}-${month.toString().padStart(2, '0')}`
PeriodKey(year, month) ==
    NumToString(year) \o "-" \o PadStart2(NumToString(month))

\* getCollection(db, 'expenses', propertyId, null, year, month): the items
\* collection of the period, or the base expenses collection when year or
\* month is falsy.
getCollection(propertyId, year, month) ==
    IF year = 0 \/ month = 0
    THEN [property |-> propertyId, periodKey |-> ""]
    ELSE [property |-> propertyId, periodKey |-> PeriodKey(year, month)]

\* The documents of a collection.
DocsOf(store, ref) ==
    {d \in store : d.property = ref.property /\ d.periodKey = ref.periodKey}

RECURSIVE SortByDocId(_)
\* A snapshot lists its documents in document id order.
SortByDocId(docs) ==
    IF docs = {} THEN <<>>
    ELSE LET first == CHOOSE d \in docs : \A e \in docs : d.docId <= e.docId
         IN  <<first>> \o SortByDocId(docs \ {first})

\* { id: doc.id, ...doc.data() }: a field id inside the document wins over
\* the document id.
Spread(doc) ==
    [doc.data EXCEPT !.id = IF doc.data.id # 0 THEN doc.data.id ELSE doc.docId]

\* getExpenses(db, propertyId, year, month); ok = FALSE is a read the store
\* rejects, which the catch turns into an empty list.
getExpenses(store, propertyId, year, month, ok) ==
    IF ok
    THEN LET snapshot == SortByDocId(DocsOf(store, getCollection(propertyId, year, month)))
         IN  [k \in 1..Len(snapshot) |-> Spread(snapshot[k])]
    ELSE <<>>

(***************************************************************************)
(* Dates.  A dueDate is the string "YYYY-MM-DD"; the process runs in UTC,  *)
(* so that the local month of a Date is its UTC month.                     *)
(***************************************************************************)
RECURSIVE ParseInt(_)
\* parseInt of a string of decimal digits (leading zeros allowed)
ParseInt(s) ==
    IF Len(s) = 0 THEN 0
    ELSE LET last == SubSeq(s, Len(s), Len(s))
             digit == CHOOSE k \in 0..9 : Digits[k + 1] = last
         IN  10 * ParseInt(SubSeq(s, 1, Len(s) - 1)) + digit

\* new Date("YYYY-MM-DD"): the year, month and day of the date at 00:00 UTC
DateParse(s) ==
    << ParseInt(SubSeq(s, 1, 4)), ParseInt(SubSeq(s, 6, 7)), ParseInt(SubSeq(s, 9, 10)) >>

IsLeapYear(year) == (year % 4 = 0 /\ year % 100 # 0) \/ year % 400 = 0

DaysInMonth(year, month) ==
    IF month = 2 THEN (IF IsLeapYear(year) THEN 29 ELSE 28)
    ELSE IF month \in {4, 6, 9, 11} THEN 30
    ELSE 31

RECURSIVE MakeDay(_, _, _)
\* The calendar date of day `day` counted from the first of month
\* `month` (1..13) of `year`: a month past December is the next year's
\* January, a day past the end of the month runs into the months after it.
MakeDay(year, month, day) ==
    IF month > 12 THEN MakeDay(year + 1, month - 12, day)
    ELSE IF day > DaysInMonth(year, month)
         THEN MakeDay(year, month + 1, day - DaysInMonth(year, month))
         ELSE <<year, month, day>>

\* newDueDate.setMonth(newDueDate.getMonth() + 1)
SetMonthPlusOne(date) == MakeDay(date[1], date[2] + 1, date[3])

\* toISOString().split('T')[0]
ToISODate(date) ==
    NumToString(date[1]) \o "-" \o PadStart2(NumToString(date[2]))
        \o "-" \o PadStart2(NumToString(date[3]))

\* Lines 241-247: the dueDate of the copy; a falsy dueDate is left as it is.
advanceDueDate(dueDate) ==
    IF dueDate = "" THEN dueDate
    ELSE ToISODate(SetMonthPlusOne(DateParse(dueDate)))

(***************************************************************************)
(* services/AlquileresRecurringService: pure helpers.                      *)
(***************************************************************************)
\* A defaulting that takes the month after the source without rolling the
\* year.
calculateDatesNoRollover(options, today) ==
    LET sourceYear == IF options.sourceYear # 0 THEN options.sourceYear ELSE today[1]
        sourceMonth == IF options.sourceMonth # 0 THEN options.sourceMonth ELSE today[2]
    IN  IF options.targetYear # 0 /\ options.targetMonth # 0
        THEN [sourceYear |-> sourceYear, sourceMonth |-> sourceMonth,
              targetYear |-> options.targetYear, targetMonth |-> options.targetMonth]
        ELSE [sourceYear |-> sourceYear, sourceMonth |-> sourceMonth,
              targetYear |-> sourceYear, targetMonth |-> sourceMonth + 1]

\* _calculateDates(options); `today` is new Date() as <<year, month>>.  An
\* option that is missing or 0 is falsy.
calculateDates(options, today) ==
    LET sourceYear == IF options.sourceYear # 0 THEN options.sourceYear ELSE today[1]
        sourceMonth == IF options.sourceMonth # 0 THEN options.sourceMonth ELSE today[2]
    IN  IF options.targetYear # 0 /\ options.targetMonth # 0
        THEN [sourceYear |-> sourceYear, sourceMonth |-> sourceMonth,
              targetYear |-> options.targetYear, targetMonth |-> options.targetMonth]
        ELSE IF sourceMonth + 1 > 12
             THEN [sourceYear |-> sourceYear, sourceMonth |-> sourceMonth,
                   targetYear |-> sourceYear + 1, targetMonth |-> 1]
             ELSE [sourceYear |-> sourceYear, sourceMonth |-> sourceMonth,
                   targetYear |-> sourceYear, targetMonth |-> sourceMonth + 1]

\* A cleaning that forgets the receipt and keeps the source's isActive.
cleanDataKeepsState(data, targetYear, targetMonth, now) ==
    [data EXCEPT !.paymentDate = FALSE, !.paidDate = FALSE,
                 !.referenceNumber = FALSE,
                 !.year = targetYear, !.month = targetMonth,
                 !.dueDate = advanceDueDate(data.dueDate),
                 !.createdAt = now, !.updatedAt = now]

\* A cleaning that hands the copy over as not recurring.
cleanDataDropsFlag(data, targetYear, targetMonth, now) ==
    [data EXCEPT !.paymentDate = FALSE, !.paidDate = FALSE, !.receipt = FALSE,
                 !.referenceNumber = FALSE,
                 !.year = targetYear, !.month = targetMonth,
                 !.dueDate = advanceDueDate(data.dueDate),
                 !.isActive = TRUE, !.isRecurring = "false",
                 !.createdAt = now, !.updatedAt = now]

\* A cleaning that leaves the year and month of the source item.
cleanDataKeepsPeriod(data, targetYear, targetMonth, now) ==
    [data EXCEPT !.paymentDate = FALSE, !.paidDate = FALSE, !.receipt = FALSE,
                 !.referenceNumber = FALSE,
                 !.dueDate = advanceDueDate(data.dueDate),
                 !.isActive = TRUE,
                 !.createdAt = now, !.updatedAt = now]

\* _cleanDataForNewPeriod(data, targetYear, targetMonth): a copy of the item
\* as read (its id included) without the payment fields, in the new period,
\* due one month later, stamped with the time `now` of the call.
cleanDataForNewPeriod(data, targetYear, targetMonth, now) ==
    [data EXCEPT !.paymentDate = FALSE, !.paidDate = FALSE, !.receipt = FALSE,
                 !.referenceNumber = FALSE,
                 !.year = targetYear, !.month = targetMonth,
                 !.dueDate = advanceDueDate(data.dueDate),
                 !.isActive = TRUE,
                 !.createdAt = now, !.updatedAt = now]

\* A filter that takes every item not flagged false.
filterNotFalse(sourceExpenses) ==
    SelectSeq(sourceExpenses, LAMBDA expense : expense.isRecurring # "false")

\* sourceExpenses.filter(expense => expense.isRecurring === true)
filterRecurring(sourceExpenses) ==
    SelectSeq(sourceExpenses, LAMBDA expense : expense.isRecurring = "true")

\* A duplicate check that also compares the period fields of the two items.
duplicateExistsSamePeriod(existingExpenses, expense) ==
    \E k \in 1..Len(existingExpenses) :
        /\ existingExpenses[k].description = expense.description
        /\ existingExpenses[k].amount = expense.amount
        /\ existingExpenses[k].month = expense.month

\* A duplicate check that does not compare an item with itself.
duplicateExistsOtherItem(existingExpenses, expense) ==
    \E k \in 1..Len(existingExpenses) :
        /\ existingExpenses[k].id # expense.id
        /\ existingExpenses[k].description = expense.description
        /\ existingExpenses[k].amount = expense.amount

\* existingExpenses.some(existing => existing.description === expense.description
\*                                   && existing.amount === expense.amount)
duplicateExists(existingExpenses, expense) ==
    \E k \in 1..Len(existingExpenses) :
        /\ existingExpenses[k].description = expense.description
        /\ existingExpenses[k].amount = expense.amount

\* newExpenseData: the cleaned copy with the generatedFrom metadata.
newExpenseData(expense, propertyId, dates, now) ==
    [cleanDataForNewPeriod(expense, dates.targetYear, dates.targetMonth, now)
        EXCEPT !.generatedFrom =
            << [sourceDocId |-> expense.id, sourceYear |-> dates.sourceYear,
                sourceMonth |-> dates.sourceMonth, propertyId |-> propertyId,
                generatedAt |-> now] >>]

\* Two generatedFrom values name the same source item.
SameSource(g, h) ==
    /\ Len(g) = Len(h)
    /\ \A k \in 1..Len(g) :
          /\ g[k].sourceDocId = h[k].sourceDocId
          /\ g[k].sourceYear = h[k].sourceYear
          /\ g[k].sourceMonth = h[k].sourceMonth
          /\ g[k].propertyId = h[k].propertyId

\* A write keyed by the source item: it replaces the copy of that item the
\* collection already holds.
AddDocKeyedBySource(store, ref, docId, data) ==
    {d \in store : ~( /\ d.property = ref.property
                      /\ d.periodKey = ref.periodKey
                      /\ SameSource(d.data.generatedFrom, data.generatedFrom) )}
        \cup {[docId |-> docId, property |-> ref.property,
                periodKey |-> ref.periodKey, data |-> data]}

\* A write that ignores the period: the document lands in the base expenses
\* collection of the property.
AddDocOutsidePeriod(store, ref, docId, data) ==
    store \cup {[docId |-> docId, property |-> ref.property,
                 periodKey |-> "", data |-> data]}

\* A write that replaces what the collection held.
AddDocReplacingCollection(store, ref, docId, data) ==
    {d \in store : ~(d.property = ref.property /\ d.periodKey = ref.periodKey)}
        \cup {[docId |-> docId, property |-> ref.property,
                periodKey |-> ref.periodKey, data |-> data]}

\* targetCollection.add(data): a new document with a fresh id.
AddDoc(store, ref, docId, data) ==
    store \cup {[docId |-> docId, property |-> ref.property,
                 periodKey |-> ref.periodKey, data |-> data]}

\* The error record of a failed item (lines 206-212).
expenseError(propertyId, expense) ==
    [type |-> "expense", propertyId |-> propertyId, expenseId |-> expense.id,
     description |-> expense.description]

\* An outcome that counts an item as created although its write failed.
itemOutcomeIgnoresFailure(duplicate, dryRun, writeOk) ==
    IF duplicate THEN "skipped" ELSE "created"

\* An outcome that counts an item as created only when it was written.
itemOutcomeCountsWrites(duplicate, dryRun, writeOk) ==
    IF duplicate THEN "skipped"
    ELSE IF dryRun THEN "simulated"
    ELSE IF ~writeOk THEN "error"
    ELSE "created"

\* What the loop body does with one recurring item (lines 179-213): skip it,
\* count it as created, or record its error when the write is rejected.
itemOutcome(duplicate, dryRun, writeOk) ==
    IF duplicate THEN "skipped"
    ELSE IF ~dryRun /\ ~writeOk THEN "error"
    ELSE "created"

\* Whether the loop body reaches targetCollection.add (lines 197-199).
callsAdd(duplicate, dryRun) == ~duplicate /\ ~dryRun

(***************************************************************************)
(* The inputs of a generate call.                                          *)
(***************************************************************************)
Options(sourceYear, sourceMonth, targetYear, targetMonth, dryRun) ==
    [sourceYear |-> sourceYear, sourceMonth |-> sourceMonth,
     targetYear |-> targetYear, targetMonth |-> targetMonth, dryRun |-> dryRun]

\* Request bodies: no overrides (the scheduler's), and a source with a target
\* that is the same month or an earlier month.
OptionSet ==
    UNION {{ Options(0, 0, 0, 0, dryRun),
             Options(2025, 12, 2025, 12, dryRun),
             Options(2025, 12, 2025, 11, dryRun) } : dryRun \in BOOLEAN}

\* new Date() at the call, as <<year, month>>.
Todays == { <<2025, 11>>, <<2025, 12>> }

(***************************************************************************)
(* The state of a generate call between two awaits.                        *)
(***************************************************************************)
ZeroResult == [created |-> 0, skipped |-> 0, errors |-> <<>>]

ZeroResults == [created |-> 0, skipped |-> 0, errors |-> <<>>, propertiesProcessed |-> 0]

NoDates == [sourceYear |-> 0, sourceMonth |-> 0, targetYear |-> 0, targetMonth |-> 0]

IdleRun ==
    [pc |-> "idle", id |-> 0, options |-> Options(0, 0, 0, 0, FALSE),
     today |-> <<0, 0>>, dates |-> NoDates, dryRun |-> FALSE, props |-> <<>>, i |-> 0,
     recurringExpenses |-> <<>>, existingExpenses |-> <<>>, j |-> 0,
     propertyResult |-> ZeroResult, results |-> ZeroResults,
     store0 |-> {}, sourceFailed |-> {}, targetFailed |-> {}, writeFailed |-> {},
     byProperty |-> <<>>, ops |-> <<>>]

\* A store operation of a run, as the run issued it: the listing of the
\* properties ("list", of no property), the read of a property's source or
\* target period ("source", "target") or an add to its target ("add").
Op(kind, propertyId, ok) == [kind |-> kind, propertyId |-> propertyId, ok |-> ok]

RECURSIVE SmallSubsets(_, _)
\* The subsets of S with at most n elements.
SmallSubsets(S, n) ==
    IF n = 0 THEN {{}}
    ELSE LET smaller == SmallSubsets(S, n - 1)
         IN  smaller \cup {T \cup {x} : T \in smaller, x \in S}

\* The places a user-entered document can have at the start: a property, a
\* period and a template, numbered.
NumSlots == Len(PropertyOrder) * Len(InitPeriods) * Len(Templates)

SlotProperty(n) == PropertyOrder[((n - 1) \div (Len(InitPeriods) * Len(Templates))) + 1]

SlotPeriod(n) == InitPeriods[(((n - 1) \div Len(Templates)) % Len(InitPeriods)) + 1]

SlotTemplate(n) == Templates[((n - 1) % Len(Templates)) + 1]

\* The document of slot n, stored by the application under its period with
\* year and month set to that period.
SlotDoc(n, docId) ==
    [docId |-> docId, property |-> SlotProperty(n),
     periodKey |-> PeriodKey(SlotPeriod(n)[1], SlotPeriod(n)[2]),
     data |-> [SlotTemplate(n) EXCEPT !.year = SlotPeriod(n)[1],
                                      !.month = SlotPeriod(n)[2]]]

InitialStore(slots) ==
    {SlotDoc(n, Cardinality({m \in slots : m <= n})) : n \in slots}

\* The unit of a property and its income document of the first period
\* (README "Estructura Real": units are a collection of their own, incomes
\* one document per unit and period).
UnitOf(propertyId) == [id |-> "u-" \o propertyId, propertyId |-> propertyId]

IncomeOf(propertyId) ==
    [property |-> propertyId, unit |-> UnitOf(propertyId).id,
     periodKey |-> PeriodKey(InitPeriods[1][1], InitPeriods[1][2]), amount |-> 1600]

\* The value of `answer` before any summary, validation, enumeration or
\* toggle; an answer carries the number `at` of the invocation it answers.
NoAnswer == [op |-> "none", at |-> 0]

Init ==
    /\ properties \in {{}, {"p1"}, {"p1", "p2"}}
    /\ units = {UnitOf(p) : p \in properties}
    /\ incomes = {IncomeOf(p) : p \in properties}
    /\ answer = NoAnswer
    /\ \E slots \in SmallSubsets({n \in 1..NumSlots : SlotProperty(n) \in properties}, MaxInit) :
          /\ expenses = InitialStore(slots)
          /\ nextId = Cardinality(slots) + 1
    /\ run = [r \in Slots |-> IdleRun]
    /\ started = 0
    /\ faults = 0
    /\ log = <<>>
    /\ written = {}

(***************************************************************************)
(* generateRecurringRecords, one action per await.                         *)
(***************************************************************************)
\* _getAllProperties(): the listing, or [] when the store rejects the read.
getAllProperties(ok) ==
    IF ok THEN SelectSeq(PropertyOrder, LAMBDA p : p \in properties) ELSE <<>>

\* The value generateRecurringRecords returns, with what the run met.
Returned(rr, success, results, store, listFailed) ==
    [id |-> rr.id, options |-> rr.options, today |-> rr.today, dates |-> rr.dates,
     dryRun |-> rr.dryRun, success |-> success,
     created |-> results.created, skipped |-> results.skipped,
     errors |-> results.errors, propertiesProcessed |-> results.propertiesProcessed,
     totalCreated |-> results.created, totalSkipped |-> results.skipped,
     totalErrors |-> Len(results.errors),
     store0 |-> rr.store0, store1 |-> store,
     listFailed |-> listFailed, sourceFailed |-> rr.sourceFailed,
     targetFailed |-> rr.targetFailed, writeFailed |-> rr.writeFailed,
     byProperty |-> rr.byProperty, ops |-> rr.ops]

\* Lines 32-66: the dates, the property listing, and the early return when
\* the listing is empty.
Generate(r, options, today, listOk) ==
    /\ run[r].pc = "idle"
    /\ started < MaxRuns
    /\ r = 1 \/ run[1].pc # "idle"
    /\ listOk \/ faults < MaxFaults
    /\ LET props == getAllProperties(listOk)
           rr == [IdleRun EXCEPT !.id = started + 1, !.options = options,
                                 !.today = today,
                                 !.dates = calculateDates(options, today),
                                 !.dryRun = options.dryRun,
                                 !.props = props, !.store0 = expenses,
                                 !.ops = <<Op("list", "", listOk)>>]
       IN  IF Len(props) = 0
           THEN /\ log' = Append(log, Returned(rr, FALSE, ZeroResults, expenses, ~listOk))
                /\ run' = run
           ELSE /\ log' = log
                /\ run' = [run EXCEPT ![r] = [rr EXCEPT !.pc = "source", !.i = 1]]
    /\ started' = started + 1
    /\ faults' = IF listOk THEN faults ELSE faults + 1
    /\ UNCHANGED <<properties, units, incomes, expenses, nextId, written, answer>>

\* A success flag that is false as soon as an item failed.
overallSuccessNoErrors(results) == Len(results.errors) = 0

\* Lines 98-101: a run that reaches its end reports success.
overallSuccess(results) == TRUE

\* A tally that keeps the counts of the last property only.
addPropertyResultOverwriting(results, propertyResult) ==
    [created |-> propertyResult.created,
     skipped |-> propertyResult.skipped,
     errors |-> results.errors \o propertyResult.errors,
     propertiesProcessed |-> results.propertiesProcessed + 1]

\* Lines 76-79: results.expenses.created += propertyResult.created, and so
\* on for skipped, errors and propertiesProcessed.
addPropertyResult(results, propertyResult) ==
    [created |-> results.created + propertyResult.created,
     skipped |-> results.skipped + propertyResult.skipped,
     errors |-> results.errors \o propertyResult.errors,
     propertiesProcessed |-> results.propertiesProcessed + 1]

\* Lines 76-79 and 91-101: the property's counts join the run's, then the
\* next property, or the return after the last one.  _generateRecurringExpenses
\* always returns a result: getExpenses swallows the errors of its reads and
\* the loop body catches those of the add, so the catches of lines 81-88 and
\* 218-221 are never entered.
AfterProperty(r, rr, store) ==
    LET propertyId == rr.props[rr.i]
        results == addPropertyResult(rr.results, rr.propertyResult)
        done == [rr EXCEPT !.results = results,
                           !.byProperty = Append(@,
                               [propertyId |-> propertyId,
                                recurring |-> Len(rr.recurringExpenses),
                                created |-> rr.propertyResult.created,
                                skipped |-> rr.propertyResult.skipped,
                                errors |-> Len(rr.propertyResult.errors)])]
    IN  IF rr.i < Len(rr.props)
        THEN /\ run' = [run EXCEPT ![r] =
                           [done EXCEPT !.pc = "source", !.i = @ + 1,
                                        !.recurringExpenses = <<>>,
                                        !.existingExpenses = <<>>, !.j = 0,
                                        !.propertyResult = ZeroResult]]
             /\ log' = log
        ELSE /\ run' = [run EXCEPT ![r] = IdleRun]
             /\ log' = Append(log, Returned(done, overallSuccess(results), results, store, FALSE))

\* A run that goes from the source period's items straight to the writes,
\* without the read of the target period.
ReadSourceSkippingTarget(r, ok) ==
    /\ run[r].pc = "source"
    /\ ok \/ faults < MaxFaults
    /\ LET rr == run[r]
           propertyId == rr.props[rr.i]
           sourceExpenses == getExpenses(expenses, propertyId, rr.dates.sourceYear,
                                         rr.dates.sourceMonth, ok)
           recurringExpenses == filterRecurring(sourceExpenses)
           read == [rr EXCEPT !.sourceFailed = IF ok THEN @ ELSE @ \cup {propertyId},
                              !.recurringExpenses = recurringExpenses,
                              !.propertyResult = ZeroResult,
                              !.ops = Append(@, Op("source", propertyId, ok))]
       IN  IF Len(sourceExpenses) = 0 \/ Len(recurringExpenses) = 0
           THEN AfterProperty(r, read, expenses)
           ELSE /\ run' = [run EXCEPT ![r] = [read EXCEPT !.pc = "items", !.j = 1]]
                /\ log' = log
    /\ faults' = IF ok THEN faults ELSE faults + 1
    /\ UNCHANGED <<properties, units, incomes, expenses, nextId, started, written, answer>>

\* Lines 146-161: the source period's items and the recurring ones.
ReadSource(r, ok) ==
    /\ run[r].pc = "source"
    /\ ok \/ faults < MaxFaults
    /\ LET rr == run[r]
           propertyId == rr.props[rr.i]
           sourceExpenses == getExpenses(expenses, propertyId, rr.dates.sourceYear,
                                         rr.dates.sourceMonth, ok)
           recurringExpenses == filterRecurring(sourceExpenses)
           read == [rr EXCEPT !.sourceFailed = IF ok THEN @ ELSE @ \cup {propertyId},
                              !.recurringExpenses = recurringExpenses,
                              !.propertyResult = ZeroResult,
                              !.ops = Append(@, Op("source", propertyId, ok))]
       IN  IF Len(sourceExpenses) = 0 \/ Len(recurringExpenses) = 0
           THEN AfterProperty(r, read, expenses)
           ELSE /\ run' = [run EXCEPT ![r] = [read EXCEPT !.pc = "target"]]
                /\ log' = log
    /\ faults' = IF ok THEN faults ELSE faults + 1
    /\ UNCHANGED <<properties, units, incomes, expenses, nextId, started, written, answer>>

\* Lines 165-169: the target period's items, read once per property.
ReadTarget(r, ok) ==
    /\ run[r].pc = "target"
    /\ ok \/ faults < MaxFaults
    /\ LET rr == run[r]
           propertyId == rr.props[rr.i]
           existingExpenses == getExpenses(expenses, propertyId, rr.dates.targetYear,
                                           rr.dates.targetMonth, ok)
       IN  run' = [run EXCEPT ![r] =
                      [rr EXCEPT !.pc = "items", !.j = 1,
                                 !.existingExpenses = existingExpenses,
                                 !.targetFailed = IF ok THEN @ ELSE @ \cup {propertyId},
                                 !.ops = Append(@, Op("target", propertyId, ok))]]
    /\ faults' = IF ok THEN faults ELSE faults + 1
    /\ UNCHANGED <<properties, units, incomes, expenses, nextId, started, log, written,
                   answer>>

\* Lines 171-214: one pass of the loop over the recurring items; writeOk =
\* FALSE is an add the store rejects.
ProcessExpense(r, writeOk) ==
    /\ run[r].pc = "items"
    /\ LET rr == run[r]
           propertyId == rr.props[rr.i]
           expense == rr.recurringExpenses[rr.j]
           duplicate == duplicateExists(rr.existingExpenses, expense)
           adds == callsAdd(duplicate, rr.dryRun)
           outcome == itemOutcome(duplicate, rr.dryRun, writeOk)
           targetCollection == getCollection(propertyId, rr.dates.targetYear,
                                             rr.dates.targetMonth)
           data == newExpenseData(expense, propertyId, rr.dates, rr.id)
           store == IF adds /\ writeOk
                    THEN AddDoc(expenses, targetCollection, nextId, data)
                    ELSE expenses
           propertyResult ==
               [created |-> rr.propertyResult.created + (IF outcome = "created" THEN 1 ELSE 0),
                skipped |-> rr.propertyResult.skipped + (IF outcome = "skipped" THEN 1 ELSE 0),
                errors |-> IF outcome = "error"
                           THEN Append(rr.propertyResult.errors,
                                       expenseError(propertyId, expense))
                           ELSE rr.propertyResult.errors]
           next == [rr EXCEPT !.propertyResult = propertyResult,
                              !.writeFailed = IF adds /\ ~writeOk
                                              THEN @ \cup {<<propertyId, rr.j, expense.id>>}
                                              ELSE @,
                              !.ops = IF adds
                                      THEN Append(@, Op("add", propertyId, writeOk))
                                      ELSE @]
       IN  /\ writeOk \/ (adds /\ faults < MaxFaults)
           /\ expenses' = store
           /\ nextId' = IF adds /\ writeOk THEN nextId + 1 ELSE nextId
           /\ written' = IF adds /\ writeOk
                         THEN written \cup {[run |-> rr.id, dates |-> rr.dates,
                                             propertyId |-> propertyId, j |-> rr.j,
                                             source |-> expense,
                                             periodKey |-> targetCollection.periodKey,
                                             docId |-> nextId, data |-> data]}
                         ELSE written
           /\ faults' = IF writeOk THEN faults ELSE faults + 1
           /\ IF rr.j < Len(rr.recurringExpenses)
              THEN /\ run' = [run EXCEPT ![r] = [next EXCEPT !.j = @ + 1]]
                   /\ log' = log
              ELSE AfterProperty(r, next, store)
    /\ UNCHANGED <<properties, units, incomes, started, answer>>

\* The steps of the run in slot r.
Step(r) ==
    \/ \E options \in OptionSet, today \in Todays, listOk \in BOOLEAN :
          Generate(r, options, today, listOk)
    \/ \E ok \in BOOLEAN : ReadSource(r, ok)
    \/ \E ok \in BOOLEAN : ReadTarget(r, ok)
    \/ \E writeOk \in BOOLEAN : ProcessExpense(r, writeOk)

\* Runs invoked one after the other, as the monthly scheduler does.
Next == Step(1)

Spec == Init /\ [][Next]_vars

\* Runs that may overlap: a second invocation arrives while one is in flight.
NextRace == \E r \in Slots : Step(r)

\* The race is between the runs' steps for one property: the overlapping
\* runs are explored on the stores with at most one property.
InitRace == Init /\ Cardinality(properties) <= 1

SpecRace == InitRace /\ [][NextRace]_vars

(***************************************************************************)
(* getDataSummary and the validation route.  A handler that only reads is  *)
(* one step; `failed` names the reads the store rejects during it: "list"  *)
(* for the property listing, a property id for the read of its items.      *)
(***************************************************************************)
\* expenses.map(e => ({ id, description, amount, isRecurring: e.isRecurring || false }))
summaryExpense(e) ==
    [id |-> e.id, description |-> e.description, amount |-> e.amount,
     isRecurring |-> (e.isRecurring = "true")]

\* Lines 300-318: the entry of one property.  getExpenses returns [] for a
\* read the store rejects, so the catch of lines 319-329, which would add the
\* error message to the entry, is never entered.
propertySummary(store, propertyId, year, month, ok) ==
    LET items == getExpenses(store, propertyId, year, month, ok)
        recurringExpenses == filterRecurring(items)
    IN  [propertyId |-> propertyId,
         totalExpenses |-> Len(items),
         recurringExpenses |-> Len(recurringExpenses),
         expenses |-> [k \in 1..Len(items) |-> summaryExpense(items[k])],
         error |-> FALSE]

RECURSIVE SumTotal(_, _)
\* totalExpenses += expenses.length, over the first n entries
SumTotal(entries, n) ==
    IF n = 0 THEN 0 ELSE SumTotal(entries, n - 1) + entries[n].totalExpenses

RECURSIVE SumRecurring(_, _)
\* totalRecurringExpenses += recurringExpenses.length, over the first n entries
SumRecurring(entries, n) ==
    IF n = 0 THEN 0 ELSE SumRecurring(entries, n - 1) + entries[n].recurringExpenses

\* A summary that drops the entry of a property whose period is empty.
getDataSummarySkippingEmpty(store, year, month, failed) ==
    LET props == getAllProperties("list" \notin failed)
        all == [k \in 1..Len(props) |->
                       propertySummary(store, props[k], year, month,
                                       props[k] \notin failed)]
        entries == SelectSeq(all, LAMBDA entry : entry.totalExpenses > 0)
    IN  [success |-> TRUE, year |-> year, month |-> month,
         summary |-> [properties |-> Len(props),
                      totalExpenses |-> SumTotal(entries, Len(entries)),
                      totalRecurringExpenses |-> SumRecurring(entries, Len(entries)),
                      propertiesSummary |-> entries]]

\* getDataSummary(year, month), lines 291-353
getDataSummary(store, year, month, failed) ==
    LET props == getAllProperties("list" \notin failed)
        entries == [k \in 1..Len(props) |->
                       propertySummary(store, props[k], year, month,
                                       props[k] \notin failed)]
    IN  [success |-> TRUE, year |-> year, month |-> month,
         summary |-> [properties |-> Len(props),
                      totalExpenses |-> SumTotal(entries, Len(entries)),
                      totalRecurringExpenses |-> SumRecurring(entries, Len(entries)),
                      propertiesSummary |-> entries]]

\* The reads a summary can see rejected: the listing, after which no items
\* are read, or the items of properties.
FailedReads(budget) ==
    {failed \in SmallSubsets({"list"} \cup properties, budget) :
        "list" \in failed => failed = {"list"}}

\* The periods a summary is asked for.
SummaryPeriods == InitPeriods \o << <<2026, 1>> >>

\* GET /summary: getDataSummary for a period.
Summarize(year, month, failed) ==
    /\ run[1].pc = "idle"
    /\ started < MaxRuns
    /\ answer' = [op |-> "summary", at |-> started + 1, year |-> year, month |-> month,
                  failed |-> failed, store |-> expenses,
                  result |-> getDataSummary(expenses, year, month, failed)]
    /\ started' = started + 1
    /\ faults' = faults + Cardinality(failed)
    /\ UNCHANGED <<properties, units, incomes, expenses, nextId, run, log, written>>

\* POST /validate, lines 213-228: the periods, computed by the route itself.
validatePeriods(options, today) ==
    LET sourceYear == IF options.sourceYear # 0 THEN options.sourceYear ELSE today[1]
        sourceMonth == IF options.sourceMonth # 0 THEN options.sourceMonth ELSE today[2]
        given == options.targetYear # 0 /\ options.targetMonth # 0
        nextMonth == sourceMonth + 1
    IN  [sourceYear |-> sourceYear, sourceMonth |-> sourceMonth,
         targetYear |-> IF given THEN options.targetYear
                        ELSE IF nextMonth > 12 THEN sourceYear + 1 ELSE sourceYear,
         targetMonth |-> IF given THEN options.targetMonth
                         ELSE IF nextMonth > 12 THEN 1 ELSE nextMonth]

\* The item collections the summary of a period reads.
summaryReads(year, month, failed) ==
    LET props == getAllProperties("list" \notin failed)
    IN  {getCollection(props[k], year, month) : k \in 1..Len(props)}

\* sourceData.success ? sourceData.summary : null
summaryOrNull(data) == IF data.success THEN data.summary ELSE <<>>

\* A validation in which a warning blocks the generation.
validateBlockingWarnings(store, options, today, failedSource, failedTarget) ==
    LET d == validatePeriods(options, today)
        sourceData == getDataSummary(store, d.sourceYear, d.sourceMonth, failedSource)
        targetData == getDataSummary(store, d.targetYear, d.targetMonth, failedTarget)
        samePeriod == d.targetYear = d.sourceYear /\ d.targetMonth = d.sourceMonth
        before == \/ d.targetYear < d.sourceYear
                  \/ (d.targetYear = d.sourceYear /\ d.targetMonth < d.sourceMonth)
        warnings ==
            (IF sourceData.success /\ sourceData.summary.totalRecurringExpenses = 0
             THEN <<"noRecurringInSource">> ELSE <<>>)
            \o (IF targetData.success /\ targetData.summary.totalExpenses > 0
                THEN <<"targetHasItems">> ELSE <<>>)
            \o (IF before THEN <<"targetBeforeSource">> ELSE <<>>)
    IN  [success |-> TRUE,
         canGenerate |-> sourceData.success /\ ~samePeriod /\ Len(warnings) = 0,
         sourceData |-> summaryOrNull(sourceData),
         targetData |-> summaryOrNull(targetData),
         periods |-> d,
         warnings |-> warnings,
         errors |-> (IF ~sourceData.success THEN <<"sourceDataFailed">> ELSE <<>>)
                    \o (IF samePeriod THEN <<"targetEqualsSource">> ELSE <<>>)]

\* POST /validate, lines 230-282: the two summaries, the blocking errors and
\* the warnings.
validate(store, options, today, failedSource, failedTarget) ==
    LET d == validatePeriods(options, today)
        sourceData == getDataSummary(store, d.sourceYear, d.sourceMonth, failedSource)
        targetData == getDataSummary(store, d.targetYear, d.targetMonth, failedTarget)
        samePeriod == d.targetYear = d.sourceYear /\ d.targetMonth = d.sourceMonth
        before == \/ d.targetYear < d.sourceYear
                  \/ (d.targetYear = d.sourceYear /\ d.targetMonth < d.sourceMonth)
    IN  [success |-> TRUE,
         canGenerate |-> sourceData.success /\ ~samePeriod,
         sourceData |-> summaryOrNull(sourceData),
         targetData |-> summaryOrNull(targetData),
         periods |-> d,
         warnings |->
            (IF sourceData.success /\ sourceData.summary.totalRecurringExpenses = 0
             THEN <<"noRecurringInSource">> ELSE <<>>)
            \o (IF targetData.success /\ targetData.summary.totalExpenses > 0
                THEN <<"targetHasItems">> ELSE <<>>)
            \o (IF before THEN <<"targetBeforeSource">> ELSE <<>>),
         errors |-> (IF ~sourceData.success THEN <<"sourceDataFailed">> ELSE <<>>)
                    \o (IF samePeriod THEN <<"targetEqualsSource">> ELSE <<>>)]

\* Request bodies of the validation with the date of the request, which the
\* route takes as they come: no overrides (in November and in December),
\* the bodies of generate, a December source without target, a source in
\* month 13, a source month alone and a target year alone.
ValidateInputs ==
    { <<Options(0, 0, 0, 0, FALSE), <<2025, 11>>>>,
      <<Options(0, 0, 0, 0, FALSE), <<2025, 12>>>>,
      <<Options(2025, 12, 2025, 12, FALSE), <<2025, 11>>>>,
      <<Options(2025, 12, 2025, 11, FALSE), <<2025, 12>>>>,
      <<Options(2025, 12, 0, 0, FALSE), <<2025, 11>>>>,
      <<Options(2025, 13, 0, 0, FALSE), <<2025, 11>>>>,
      <<Options(0, 11, 0, 0, FALSE), <<2025, 12>>>>,
      <<Options(2025, 11, 2026, 0, FALSE), <<2025, 11>>>> }

\* POST /validate.
Validate(options, today, failedSource, failedTarget) ==
    /\ run[1].pc = "idle"
    /\ started < MaxRuns
    /\ Cardinality(failedSource) + Cardinality(failedTarget) <= MaxFaults - faults
    /\ LET d == validatePeriods(options, today)
       IN  answer' = [op |-> "validate", at |-> started + 1, options |-> options, today |-> today,
                      failedSource |-> failedSource, failedTarget |-> failedTarget,
                      store |-> expenses,
                      reads |-> summaryReads(d.sourceYear, d.sourceMonth, failedSource)
                                \cup summaryReads(d.targetYear, d.targetMonth, failedTarget),
                      result |-> validate(expenses, options, today, failedSource,
                                          failedTarget)]
    /\ started' = started + 1
    /\ faults' = faults + Cardinality(failedSource) + Cardinality(failedTarget)
    /\ UNCHANGED <<properties, units, incomes, expenses, nextId, run, log, written>>

(***************************************************************************)
(* utils/hierarchicalPath: listExpensePeriods.                             *)
(***************************************************************************)
RECURSIVE IndexOfDash(_, _)
\* The position of the first "-" of s at or after position k, 0 if none.
IndexOfDash(s, k) ==
    IF k > Len(s) THEN 0
    ELSE IF SubSeq(s, k, k) = "-" THEN k
    ELSE IndexOfDash(s, k + 1)

\* const [year, month] = periodKey.split('-'); parseInt of each
ParsePeriodKey(periodKey) ==
    LET dash == IndexOfDash(periodKey, 1)
        rest == SubSeq(periodKey, dash + 1, Len(periodKey))
        dash2 == IndexOfDash(rest, 1)
    IN  [year |-> ParseInt(SubSeq(periodKey, 1, dash - 1)),
         month |-> ParseInt(IF dash2 = 0 THEN rest ELSE SubSeq(rest, 1, dash2 - 1)),
         periodKey |-> periodKey]

\* expensesRef.listDocuments(): the period documents under the property's
\* expenses, those that only exist as the parent of items and those in
\* `emptyDocs`, which hold no items.
listDocuments(store, propertyId, emptyDocs) ==
    {d.periodKey : d \in {e \in store : e.property = propertyId}} \cup emptyDocs

\* !itemsSnapshot.empty for the items of a period document
hasItems(store, propertyId, periodKey) ==
    \E d \in store : d.property = propertyId /\ d.periodKey = periodKey

\* (a, b) => a.year !== b.year ? a.year - b.year : a.month - b.month, as a.b <= 0
periodBefore(a, b) ==
    IF a.year # b.year THEN a.year - b.year <= 0 ELSE a.month - b.month <= 0

RECURSIVE SortPeriods(_)
\* periods.sort(...)
SortPeriods(periods) ==
    IF periods = {} THEN <<>>
    ELSE LET first == CHOOSE a \in periods : \A b \in periods : periodBefore(a, b)
         IN  <<first>> \o SortPeriods(periods \ {first})

\* An enumeration that lists every period document, with or without items.
listExpensePeriodsUnverified(store, propertyId, emptyDocs, ok) ==
    IF ok
    THEN SortPeriods({ParsePeriodKey(key) : key \in listDocuments(store, propertyId, emptyDocs)})
    ELSE <<>>

\* listExpensePeriods(db, propertyId); ok = FALSE is a read the store
\* rejects, which the catch turns into an empty list.
listExpensePeriods(store, propertyId, emptyDocs, ok) ==
    IF ok
    THEN SortPeriods({ParsePeriodKey(key) :
                        key \in {k \in listDocuments(store, propertyId, emptyDocs) :
                                    hasItems(store, propertyId, k)}})
    ELSE <<>>

\* Period documents without items that the store may hold for a property.
EmptyPeriodDocs == {{}, {"2025-10"}}

\* A call of listExpensePeriods for a property.
ListExpensePeriods(propertyId, emptyDocs, ok) ==
    /\ run[1].pc = "idle"
    /\ started < MaxRuns
    /\ ok \/ faults < MaxFaults
    /\ answer' = [op |-> "periods", at |-> started + 1, propertyId |-> propertyId,
                  emptyDocs |-> emptyDocs, ok |-> ok, store |-> expenses,
                  result |-> listExpensePeriods(expenses, propertyId, emptyDocs, ok)]
    /\ started' = started + 1
    /\ faults' = IF ok THEN faults ELSE faults + 1
    /\ UNCHANGED <<properties, units, incomes, expenses, nextId, run, log, written>>

(***************************************************************************)
(* services/AlquileresRecurringService: setExpenseRecurring.               *)
(***************************************************************************)
\* An update that replaces the document by the two fields it is given.
UpdateDocReplacingData(store, ref, docId, isRecurring, now) ==
    {IF d.property = ref.property /\ d.periodKey = ref.periodKey /\ d.docId = docId
     THEN [d EXCEPT !.data = [Template("", 0, IF isRecurring THEN "true" ELSE "false",
                                       FALSE, FALSE, "")
                                 EXCEPT !.updatedAt = now]]
     ELSE d : d \in store}

\* docRef.update({ isRecurring, updatedAt }): the two fields of the document
\* docId of the collection, the rest as it was.
UpdateDoc(store, ref, docId, isRecurring, now) ==
    {IF d.property = ref.property /\ d.periodKey = ref.periodKey /\ d.docId = docId
     THEN [d EXCEPT !.data.isRecurring = IF isRecurring THEN "true" ELSE "false",
                    !.data.updatedAt = now]
     ELSE d : d \in store}

\* The periods and document ids a toggle is asked for.
TogglePeriods == InitPeriods

\* setExpenseRecurring(propertyId, year, month, expenseId, isRecurring),
\* lines 364-386: update rejects a document that does not exist, and ok =
\* FALSE is an update the store rejects for another reason.
SetExpenseRecurring(propertyId, year, month, expenseId, isRecurring, ok) ==
    /\ run[1].pc = "idle"
    /\ started < MaxRuns
    /\ ok \/ faults < MaxFaults
    /\ LET collectionRef == getCollection(propertyId, year, month)
           exists == \E d \in DocsOf(expenses, collectionRef) : d.docId = expenseId
           success == ok /\ exists
       IN  /\ expenses' = IF success
                          THEN UpdateDoc(expenses, collectionRef, expenseId, isRecurring,
                                         started + 1)
                          ELSE expenses
           /\ answer' = [op |-> "toggle", at |-> started + 1, propertyId |-> propertyId, year |-> year,
                         month |-> month, expenseId |-> expenseId,
                         isRecurring |-> isRecurring, ok |-> ok, store |-> expenses,
                         result |-> [success |-> success]]
    /\ started' = started + 1
    /\ faults' = IF ok THEN faults ELSE faults + 1
    /\ UNCHANGED <<properties, units, incomes, nextId, run, log, written>>

\* Generation, summaries and period enumerations, one invocation after the
\* other.
NextRead ==
    \/ Step(1)
    \/ \E p \in 1..Len(SummaryPeriods), failed \in FailedReads(MaxFaults - faults) :
          Summarize(SummaryPeriods[p][1], SummaryPeriods[p][2], failed)
    \/ \E propertyId \in PropertyIds, emptyDocs \in EmptyPeriodDocs, ok \in BOOLEAN :
          ListExpensePeriods(propertyId, emptyDocs, ok)

SpecRead == Init /\ [][NextRead]_vars

\* Generation and validations, one invocation after the other.
NextValidate ==
    \/ Step(1)
    \/ \E input \in ValidateInputs,
          failedSource \in FailedReads(MaxFaults - faults),
          failedTarget \in FailedReads(MaxFaults - faults) :
          Validate(input[1], input[2], failedSource, failedTarget)

SpecValidate == Init /\ [][NextValidate]_vars

\* Generation and toggles of the recurring flag, one invocation after the
\* other.
NextToggle ==
    \/ Step(1)
    \/ \E propertyId \in PropertyIds, p \in 1..Len(TogglePeriods),
          expenseId \in 1..nextId, isRecurring \in BOOLEAN, ok \in BOOLEAN :
          SetExpenseRecurring(propertyId, TogglePeriods[p][1], TogglePeriods[p][2],
                              expenseId, isRecurring, ok)

\* A toggle is about one item of one property: the toggles are explored on
\* the stores with at most one property (a toggle may still name another).
InitToggle == Init /\ Cardinality(properties) <= 1

SpecToggle == InitToggle /\ [][NextToggle]_vars

(***************************************************************************)
(* Generation from a store that holds one recurring item of one property,  *)
(* the item's dueDate ranging over the calendar.                           *)
(***************************************************************************)
DueYears == {2024, 2025}

DueDays == {15, 28, 29, 30, 31}

\* The dueDate values of a user-entered item: none, or a calendar date.
DueDates ==
    {""} \cup {ToISODate(<<year, month, day>>) :
                  year \in DueYears, month \in 1..12,
                  day \in DueDays}

\* The dueDate values that are dates of the calendar.
ValidDueDates ==
    {dueDate \in DueDates :
        dueDate = "" \/ DateParse(dueDate)[3]
                            <= DaysInMonth(DateParse(dueDate)[1], DateParse(dueDate)[2])}

InitDue ==
    /\ properties = {"p1"}
    /\ units = {UnitOf(p) : p \in properties}
    /\ incomes = {IncomeOf(p) : p \in properties}
    /\ answer = NoAnswer
    /\ \E dueDate \in ValidDueDates, period \in 1..Len(InitPeriods) :
          expenses = {[docId |-> 1, property |-> "p1",
                       periodKey |-> PeriodKey(InitPeriods[period][1], InitPeriods[period][2]),
                       data |-> [Template("Rent", 500, "true", TRUE, TRUE, dueDate)
                                    EXCEPT !.year = InitPeriods[period][1],
                                           !.month = InitPeriods[period][2]]]}
    /\ nextId = 2
    /\ run = [r \in Slots |-> IdleRun]
    /\ started = 0
    /\ faults = 0
    /\ log = <<>>
    /\ written = {}

SpecDue == InitDue /\ [][Next]_vars

(***************************************************************************)
(* Vocabulary of the properties: what the store holds, stated on the       *)
(* documents themselves and not on what a read returns.                    *)
(***************************************************************************)
LogIndex == 1..Len(log)

\* The documents of a property's period.
PeriodDocs(store, propertyId, year, month) ==
    {d \in store : d.property = propertyId /\ d.periodKey = PeriodKey(year, month)}

\* The documents of a property's period flagged isRecurring: true.
RecurringDocs(store, propertyId, year, month) ==
    {d \in PeriodDocs(store, propertyId, year, month) : d.data.isRecurring = "true"}

\* The recurring documents of the source period over all properties.
RecurringSourceCount(store, dates) ==
    Cardinality(UNION {RecurringDocs(store, p, dates.sourceYear, dates.sourceMonth) :
                       p \in properties})

SameKey(a, b) == a.description = b.description /\ a.amount = b.amount

\* No store operation of the run failed.
FaultFree(entry) ==
    /\ ~entry.listFailed
    /\ entry.sourceFailed = {}
    /\ entry.targetFailed = {}
    /\ entry.writeFailed = {}

\* No read of the run failed.
ReadsSucceeded(entry) ==
    /\ ~entry.listFailed
    /\ entry.sourceFailed = {}
    /\ entry.targetFailed = {}

\* Entry b is the run that follows run a with the same options and periods
\* on the store run a left.
Repeats(a, b) ==
    /\ b.id = a.id + 1
    /\ b.options = a.options
    /\ b.dates = a.dates
    /\ b.store0 = a.store1

\* The second run of C1 did nothing but skip.
OnlySkipped(b) ==
    /\ b.created = 0
    /\ b.skipped = RecurringSourceCount(b.store0, b.dates)
    /\ b.store1 = b.store0

DocById(id) == CHOOSE d \in expenses : d.docId = id

\* The documents that were in the collection of a written document when it
\* was added: ids are handed out in increasing order and nothing is deleted.
PresentAtAdd(w) ==
    {d \in expenses : /\ d.docId < w.docId
                      /\ d.property = DocById(w.docId).property
                      /\ d.periodKey = DocById(w.docId).periodKey}

\* C2: in any sequence of non-overlapping runs, no run adds to a property's
\* target period an item whose (description, amount) equals that of another
\* item of that property and period, an item added earlier in the same run
\* included.  Stated for runs in which no store operation fails.
C2_NoDuplicateAdded ==
    faults = 0 =>
        \A w \in written : \A d \in PresentAtAdd(w) : ~SameKey(d.data, w.data)

(***************************************************************************)
(* C3.  Dry run.                                                           *)
(***************************************************************************)
\* Entry b is a non-dry run from the state, periods and read outcomes of
\* the dry run a, with no write failure.
NonDryTwin(a, b) ==
    /\ a.dryRun
    /\ ~b.dryRun
    /\ b.store0 = a.store0
    /\ b.dates = a.dates
    /\ b.listFailed = a.listFailed
    /\ b.sourceFailed = a.sourceFailed
    /\ b.targetFailed = a.targetFailed
    /\ b.writeFailed = {}

\* C3: a dry run leaves the store unchanged (no add is issued for it and
\* the store it returns on is the store it started on), and its created and
\* skipped counts are those of a non-dry run from the same state with the
\* same options, when no write fails.
C3_DryRun ==
    /\ \A w \in written : \A r \in Slots : run[r].dryRun => w.run # run[r].id
    /\ \A k \in LogIndex :
          log[k].dryRun =>
              /\ log[k].store1 = log[k].store0
              /\ \A w \in written : w.run # log[k].id
    /\ \A k \in LogIndex, l \in LogIndex :
          NonDryTwin(log[k], log[l]) =>
              /\ log[k].created = log[l].created
              /\ log[k].skipped = log[l].skipped

\* A dry run reported a created item and the non-dry run after it, from the
\* same state, created it.
C3_Witness ==
    \E k \in LogIndex, l \in LogIndex :
        /\ NonDryTwin(log[k], log[l])
        /\ log[k].created > 0
        /\ log[l].store1 # log[l].store0

(***************************************************************************)
(* C4.  Race between two runs (checked under SpecRace).                    *)
(***************************************************************************)
\* Two adds by different runs that copy the same source item of a property
\* into the same target period.
SameCopy(v, w) ==
    /\ v.run # w.run
    /\ v.propertyId = w.propertyId
    /\ v.periodKey = w.periodKey
    /\ v.dates = w.dates
    /\ v.source = w.source

\* The target period holds two items with the same (description, amount)
\* generated from the source item of w.
HoldsTwoCopies(w) ==
    \E d \in expenses, e \in expenses :
        /\ d.docId # e.docId
        /\ d.property = w.propertyId /\ e.property = w.propertyId
        /\ d.periodKey = w.periodKey /\ e.periodKey = w.periodKey
        /\ SameKey(d.data, e.data)
        /\ SameSource(d.data.generatedFrom, w.data.generatedFrom)
        /\ SameSource(e.data.generatedFrom, w.data.generatedFrom)

\* C4: when two runs for the same source and target period both pass the
\* duplicate check for the same source item and both write, the property's
\* target period holds two items with the same (description, amount)
\* generated from that source item: nothing merges or rejects the second.
C4_RaceDuplicates ==
    \A v \in written, w \in written : SameCopy(v, w) => HoldsTwoCopies(w)

\* With no store failure at all, two runs wrote a copy of the same source
\* item: both duplicate checks passed on reads made before either write.
C4_Witness ==
    /\ faults = 0
    /\ \E v \in written, w \in written : SameCopy(v, w) /\ HoldsTwoCopies(w)

(***************************************************************************)
(* C5.  Lineage points at the source document.                             *)
(***************************************************************************)
\* C5: every item created by generate carries generatedFrom with sourceDocId
\* the document id of the source-period item it was copied from,
\* sourceYear/sourceMonth the run's source period and propertyId the owning
\* property, also when the source item was itself generated.  Stated for
\* runs in which no store operation fails.
C5_LineagePointsAtSource ==
    faults = 0 =>
        \A w \in written :
            LET lineage == w.data.generatedFrom[1]
            IN  /\ lineage.sourceYear = w.dates.sourceYear
                /\ lineage.sourceMonth = w.dates.sourceMonth
                /\ lineage.propertyId = w.propertyId
                /\ \E d \in PeriodDocs(expenses, w.propertyId, w.dates.sourceYear,
                                       w.dates.sourceMonth) :
                       /\ d.docId = lineage.sourceDocId
                       /\ SameKey(d.data, w.data)

(***************************************************************************)
(* C6.  Payment state is never carried over.                               *)
(***************************************************************************)
\* C6: every item written by generate has no paidDate, receipt,
\* referenceNumber or paymentDate and has isActive = true, whatever the
\* source item had, while description and amount are those of the source
\* item; the stored document is the item as written.
C6_PaymentStateNotCarried ==
    \A w \in written :
        /\ ~w.data.paidDate /\ ~w.data.receipt
        /\ ~w.data.referenceNumber /\ ~w.data.paymentDate
        /\ w.data.isActive
        /\ w.data.description = w.source.description
        /\ w.data.amount = w.source.amount
        /\ \E d \in expenses : d.docId = w.docId /\ d.data = w.data

\* A paid item and an inactive item were both copied.
C6_Witness ==
    /\ \E w \in written :
          /\ w.source.paidDate /\ w.source.receipt
          /\ w.source.referenceNumber /\ w.source.paymentDate
    /\ \E w \in written : ~w.source.isActive

(***************************************************************************)
(* C7.  Only flagged items propagate.                                      *)
(***************************************************************************)
\* Every add copies a source-period document flagged isRecurring: true, and
\* no property's created and skipped counts exceed its recurring documents.
OnlyFlaggedCounted ==
    /\ \A w \in written :
          /\ w.source.isRecurring = "true"
          /\ \E d \in PeriodDocs(expenses, w.propertyId, w.dates.sourceYear,
                                 w.dates.sourceMonth) : Spread(d) = w.source
    /\ \A k \in LogIndex : \A n \in 1..Len(log[k].byProperty) :
          LET row == log[k].byProperty[n]
          IN  row.created + row.skipped
                  <= Cardinality(RecurringDocs(log[k].store0, row.propertyId,
                                               log[k].dates.sourceYear,
                                               log[k].dates.sourceMonth))

\* The property of row n of entry e had an empty target period at the start
\* of the run, and the run created all its recurring source items.
EmptyTargetAllCreated(e, n) ==
    LET row == e.byProperty[n]
    IN  PeriodDocs(e.store0, row.propertyId, e.dates.targetYear, e.dates.targetMonth) = {}
        => /\ row.created = Cardinality(RecurringDocs(e.store0, row.propertyId,
                                                      e.dates.sourceYear,
                                                      e.dates.sourceMonth))
           /\ row.skipped = 0

WritesOf(id, propertyId) == {w \in written : w.run = id /\ w.propertyId = propertyId}

\* C8: in a non-dry run, every add the store rejects leaves one error with
\* the property id and the item id, the item is not counted as created
\* (created is the number of documents the run added), and the run still
\* handles every other recurring item of the property and every other
\* property: each recurring item it read ends created, skipped or in error.
C8_ItemFailureIsolated ==
    \A k \in LogIndex :
        LET e == log[k]
        IN  e.success =>
            /\ Len(e.errors) = Cardinality(e.writeFailed)
            /\ \A f \in e.writeFailed :
                  \E n \in 1..Len(e.errors) :
                      /\ e.errors[n].type = "expense"
                      /\ e.errors[n].propertyId = f[1]
                      /\ e.errors[n].expenseId = f[3]
            /\ e.propertiesProcessed = Cardinality(properties)
            /\ Len(e.byProperty) = Cardinality(properties)
            /\ \A n \in 1..Len(e.byProperty) :
                  LET row == e.byProperty[n]
                  IN  /\ row.created + row.skipped + row.errors = row.recurring
                      /\ row.errors = Cardinality({f \in e.writeFailed :
                                                      f[1] = row.propertyId})
                      /\ row.propertyId \notin e.sourceFailed =>
                            row.recurring =
                                Cardinality(RecurringDocs(e.store0, row.propertyId,
                                                          e.dates.sourceYear,
                                                          e.dates.sourceMonth))
                      /\ ~e.dryRun =>
                            row.created = Cardinality(WritesOf(e.id, row.propertyId))

\* An add failed and the run went on to add a later item of the property.
C8_Witness ==
    \E k \in LogIndex : \E f \in log[k].writeFailed : \E w \in written :
        /\ log[k].success
        /\ w.run = log[k].id
        /\ w.propertyId = f[1]
        /\ w.j > f[2]

(***************************************************************************)
(* C9.  Property-level failure is recorded.                                *)
(***************************************************************************)
\* C9: when the read of a property's source-period or target-period items
\* fails, the run adds an error scoped to that property to its error list
\* (and goes on with the next property).
C9_ReadFailureRecorded ==
    \A k \in LogIndex :
        log[k].success =>
            \A p \in log[k].sourceFailed \cup log[k].targetFailed :
                \E n \in 1..Len(log[k].errors) : log[k].errors[n].propertyId = p

(***************************************************************************)
(* C10.  Top-level outcome of generate.                                    *)
(***************************************************************************)
\* C10: generate returns success = false exactly when the property listing
\* is empty or cannot be read, and then performs no write; in every other
\* case it returns success = true, whatever the number of errors.
C10_TopLevelOutcome ==
    \A k \in LogIndex :
        LET e == log[k]
        IN  /\ ~e.success <=> (e.listFailed \/ properties = {})
            /\ ~e.success =>
                  /\ e.store1 = e.store0
                  /\ \A w \in written : w.run # e.id

\* A run with a failed item returned success.
C10_Witness ==
    \E k \in LogIndex : log[k].success /\ Len(log[k].errors) > 0

\* A run that could not read the property listing of a store that holds
\* properties and recurring items returned failure.
C10_WitnessFailure ==
    \E k \in LogIndex :
        /\ ~log[k].success
        /\ log[k].listFailed
        /\ RecurringSourceCount(log[k].store0, log[k].dates) > 0

(***************************************************************************)
(* C11.  Due-date advance.                                                 *)
(***************************************************************************)
\* The calendar month after (year, month), as <<year, month>>.
MonthAfter(year, month) == IF month = 12 THEN <<year + 1, 1>> ELSE <<year, month + 1>>

\* The dueDate `copy` is the dueDate `source` one calendar month later: in
\* the following month, on the same day when that month has the day.
OneMonthLater(source, copy) ==
    LET from == DateParse(source)
        to == DateParse(copy)
        after == MonthAfter(from[1], from[2])
    IN  /\ to[1] = after[1]
        /\ to[2] = after[2]
        /\ from[3] <= DaysInMonth(after[1], after[2]) => to[3] = from[3]

\* C11: for every source item with dueDate (y, m, d) the generated item's
\* dueDate lies in the calendar month immediately following (y, m), December
\* rolling to January of y+1, and keeps day d whenever d exists in that
\* month; a source item without dueDate produces an item without dueDate.
\* Stated for runs in which no store operation fails (checked under SpecDue).
C11_DueDateAdvance ==
    faults = 0 =>
        \A w \in written :
            IF w.source.dueDate = "" THEN w.data.dueDate = ""
            ELSE w.data.dueDate # "" /\ OneMonthLater(w.source.dueDate, w.data.dueDate)

(***************************************************************************)
(* C12.  Period defaulting (checked under SpecValidate).                   *)
(***************************************************************************)
\* Two request bodies carry the same period overrides.
SamePeriodOptions(a, b) ==
    /\ a.sourceYear = b.sourceYear /\ a.sourceMonth = b.sourceMonth
    /\ a.targetYear = b.targetYear /\ a.targetMonth = b.targetMonth

\* The periods d are those the defaulting rule gives for the options on the
\* date today: a missing source year or month is today's, and without a
\* target (year and month) the target is the month after the source.
DefaultedPeriods(options, today, d) ==
    /\ options.sourceYear = 0 => d.sourceYear = today[1]
    /\ options.sourceMonth = 0 => d.sourceMonth = today[2]
    /\ options.sourceYear # 0 => d.sourceYear = options.sourceYear
    /\ options.sourceMonth # 0 => d.sourceMonth = options.sourceMonth
    /\ (options.targetYear # 0 /\ options.targetMonth # 0) =>
          (d.targetYear = options.targetYear /\ d.targetMonth = options.targetMonth)
    /\ (options.targetYear = 0 \/ options.targetMonth = 0) =>
          /\ d.sourceMonth < 12 =>
                (d.targetYear = d.sourceYear /\ d.targetMonth = d.sourceMonth + 1)
          /\ d.sourceMonth = 12 =>
                (d.targetYear = d.sourceYear + 1 /\ d.targetMonth = 1)
          /\ d.targetMonth \in 1..12

KeepsLineage(d, e) ==
    /\ e.docId = d.docId
    /\ e.property = d.property
    /\ e.periodKey = d.periodKey
    /\ e.data.generatedFrom = d.data.generatedFrom

\* C13: no step of a generate run modifies or deletes an item already in
\* the store, in the source period, the target period or anywhere else; and
\* the generatedFrom lineage of an item stays what it was through every
\* later step, of a generate run or of a toggle of the recurring flag.
C13_ExistingNeverRewritten ==
    [][ /\ Step(1) => \A d \in expenses : d \in expenses'
        /\ \A d \in expenses : \E e \in expenses' : KeepsLineage(d, e)
      ]_vars

\* A generated item had its recurring flag toggled after its creation and
\* still carries the lineage it was written with.
C13_Witness ==
    /\ answer.op = "toggle"
    /\ answer.result.success
    /\ \E d \in expenses, w \in written :
          /\ d.docId = answer.expenseId
          /\ w.docId = d.docId
          /\ d.data.updatedAt > d.data.createdAt
          /\ d.data.isRecurring = "false"
          /\ d.data.generatedFrom # NoLineage
          /\ d.data.generatedFrom = w.data.generatedFrom

(***************************************************************************)
(* C14.  Incomes are never generated.                                      *)
(***************************************************************************)
\* Document d lies in the expense item collection of the target period of
\* the property the run in slot r is processing.
InTargetOfRun(d, r) ==
    /\ run[r].pc = "items"
    /\ d.property = run[r].props[run[r].i]
    /\ d.property \in properties
    /\ d.periodKey = PeriodKey(run[r].dates.targetYear, run[r].dates.targetMonth)

\* C14: every write of generate goes to the expense item collection of some
\* property's target period; all income documents, units, properties and
\* expense items of other periods are unchanged by every step of a run.
C14_OnlyTargetExpensesWritten ==
    [][ /\ incomes' = incomes
        /\ units' = units
        /\ properties' = properties
        /\ \A d \in expenses : d \in expenses'
        /\ \A d \in expenses' \ expenses : \E r \in Slots : InTargetOfRun(d, r)
      ]_vars

\* A run wrote an item for a property that has a unit with an income
\* document and an expense item in another period, while another property
\* holds items too.
C14_Witness ==
    \E w \in written :
        /\ \E u \in units : u.propertyId = w.propertyId
        /\ \E n \in incomes : n.property = w.propertyId
        /\ \E d \in expenses : d.property = w.propertyId /\ d.periodKey # w.periodKey
        /\ \E d \in expenses : d.property # w.propertyId

(***************************************************************************)
(* C15.  Validation verdict (checked under SpecValidate).                  *)
(***************************************************************************)
\* The sequence holds the message.
Has(messages, message) == \E n \in 1..Len(messages) : messages[n] = message

\* The expense documents of a period over all properties.
AllPeriodDocs(store, year, month) ==
    UNION {PeriodDocs(store, p, year, month) : p \in properties}

\* The target period of d is chronologically before its source period.
TargetPrecedesSource(d) ==
    \/ d.targetYear < d.sourceYear
    \/ (d.targetYear = d.sourceYear /\ d.targetMonth < d.sourceMonth)

\* canGenerate is false exactly when the target period equals the source
\* period or the source summary failed, each with its blocking error.
VerdictBlocking(a) ==
    LET v == a.result
        d == v.periods
        samePeriod == d.targetYear = d.sourceYear /\ d.targetMonth = d.sourceMonth
    IN  /\ v.success
        /\ ~v.canGenerate <=> (samePeriod \/ Has(v.errors, "sourceDataFailed"))
        /\ Has(v.errors, "targetEqualsSource") <=> samePeriod
        /\ Has(v.warnings, "targetBeforeSource") <=> TargetPrecedesSource(d)

\* The two warnings about the data are emitted exactly when the summaries
\* the validation returns show their conditions.
WarningsAsSummaries(a) ==
    LET v == a.result
    IN  /\ Has(v.warnings, "noRecurringInSource")
               <=> v.sourceData.totalRecurringExpenses = 0
        /\ Has(v.warnings, "targetHasItems") <=> v.targetData.totalExpenses > 0

\* The two warnings about the data are emitted exactly when the store shows
\* their conditions.
WarningsAsStore(a) ==
    LET v == a.result
        d == v.periods
    IN  /\ Has(v.warnings, "noRecurringInSource")
               <=> RecurringSourceCount(a.store, d) = 0
        /\ Has(v.warnings, "targetHasItems")
               <=> AllPeriodDocs(a.store, d.targetYear, d.targetMonth) # {}

\* The step leaves the store as it was.
StoreUnchanged ==
    UNCHANGED <<properties, units, incomes, expenses, nextId>>

\* C15 as stated: validate returns canGenerate = false exactly when the
\* target period equals the source period or the source summary failed,
\* whatever the store holds; the warnings (no recurring items in source,
\* target already has items, target precedes source) are emitted exactly
\* under their conditions and never make canGenerate false; validate leaves
\* the store unchanged.
C15_ValidationVerdict ==
    [][ (answer' # answer /\ answer'.op = "validate") =>
            /\ VerdictBlocking(answer')
            /\ WarningsAsStore(answer')
            /\ StoreUnchanged
      ]_vars

\* C15 amended: the same, the warnings about the data being emitted exactly
\* under their conditions as the two summaries of the validation report
\* them, which are the conditions of the store when no read of the
\* validation fails.
C15_ValidationVerdictOnSummaries ==
    [][ (answer' # answer /\ answer'.op = "validate") =>
            /\ VerdictBlocking(answer')
            /\ WarningsAsSummaries(answer')
            /\ (answer'.failedSource = {} /\ answer'.failedTarget = {})
                   => WarningsAsStore(answer')
            /\ StoreUnchanged
      ]_vars

\* A validation with no failed read found recurring items in the source,
\* warned that the target holds items and precedes the source, and still
\* returned canGenerate = true.
C15_Witness ==
    /\ answer.op = "validate"
    /\ answer.failedSource = {} /\ answer.failedTarget = {}
    /\ answer.result.canGenerate
    /\ answer.result.sourceData.totalRecurringExpenses > 0
    /\ Has(answer.result.warnings, "targetHasItems")
    /\ Has(answer.result.warnings, "targetBeforeSource")
    /\ ~Has(answer.result.warnings, "noRecurringInSource")

(***************************************************************************)
(* C16.  Summary totals (checked under SpecRead).                          *)
(***************************************************************************)
\* The number of items of the entry listed with isRecurring true.
FlaggedItems(entry) ==
    Cardinality({k \in 1..Len(entry.expenses) : entry.expenses[k].isRecurring})

\* The totals of the summary are the sums over its entries: totalExpenses of
\* the item counts, totalRecurringExpenses of the items with isRecurring
\* true, never above totalExpenses.
TotalsAreSums(summary) ==
    LET entries == summary.propertiesSummary
    IN  /\ \A k \in 1..Len(entries) :
              /\ entries[k].totalExpenses = Len(entries[k].expenses)
              /\ entries[k].recurringExpenses = FlaggedItems(entries[k])
        /\ summary.totalExpenses = SumTotal(entries, Len(entries))
        /\ summary.totalRecurringExpenses = SumRecurring(entries, Len(entries))
        /\ summary.totalRecurringExpenses <= summary.totalExpenses

\* The summary has one entry per property of the store, and counts them.
OneEntryPerProperty(summary) ==
    LET entries == summary.propertiesSummary
    IN  /\ summary.properties = Cardinality(properties)
        /\ Len(entries) = Cardinality(properties)
        /\ \A p \in properties :
              Cardinality({k \in 1..Len(entries) : entries[k].propertyId = p}) = 1

\* With zero properties: properties = 0, zero totals and an empty list.
EmptySummary(summary) ==
    /\ summary.properties = 0
    /\ summary.totalExpenses = 0
    /\ summary.totalRecurringExpenses = 0
    /\ summary.propertiesSummary = <<>>

\* The entry of a property whose items were read counts the items the store
\* holds in the period and those of them flagged isRecurring: true.
EntriesAsStore(a) ==
    LET entries == a.result.summary.propertiesSummary
    IN  \A k \in 1..Len(entries) :
            entries[k].propertyId \notin a.failed =>
                /\ entries[k].totalExpenses =
                       Cardinality(PeriodDocs(a.store, entries[k].propertyId,
                                              a.year, a.month))
                /\ entries[k].recurringExpenses =
                       Cardinality(RecurringDocs(a.store, entries[k].propertyId,
                                                 a.year, a.month))

\* C16 as stated: for every store state and period, summarize leaves the
\* store unchanged and returns one entry per property, with totalExpenses
\* the sum of the per-property item counts and totalRecurringExpenses the
\* number of items with isRecurring = true (never above totalExpenses); with
\* zero properties it returns properties = 0, zero totals and an empty
\* per-property list, not an error.
C16_SummaryTotals ==
    [][ (answer' # answer /\ answer'.op = "summary") =>
            /\ StoreUnchanged
            /\ answer'.result.success
            /\ OneEntryPerProperty(answer'.result.summary)
            /\ TotalsAreSums(answer'.result.summary)
            /\ properties = {} => EmptySummary(answer'.result.summary)
      ]_vars

\* C16 amended: the same, with one entry per property when the listing of
\* the properties is read, each entry counting the items of the store when
\* the items of its property are read; a summary whose listing fails is
\* the summary of zero properties.
C16_SummaryTotalsOfListedProperties ==
    [][ (answer' # answer /\ answer'.op = "summary") =>
            /\ StoreUnchanged
            /\ answer'.result.success
            /\ IF "list" \in answer'.failed
               THEN EmptySummary(answer'.result.summary)
               ELSE OneEntryPerProperty(answer'.result.summary)
            /\ EntriesAsStore(answer')
            /\ TotalsAreSums(answer'.result.summary)
            /\ properties = {} => EmptySummary(answer'.result.summary)
      ]_vars

\* A summary with no failed read over two properties whose period holds
\* recurring items and items that are not.
C16_Witness ==
    /\ answer.op = "summary"
    /\ answer.failed = {}
    /\ Cardinality(properties) = 2
    /\ Len(answer.result.summary.propertiesSummary) = 2
    /\ answer.result.summary.totalRecurringExpenses > 0
    /\ answer.result.summary.totalRecurringExpenses
           < answer.result.summary.totalExpenses

(***************************************************************************)
(* C17.  Summary under per-property failure (checked under SpecRead).      *)
(***************************************************************************)
\* C17: when reading one property's period items fails, summarize still
\* returns success with an entry for every property, and the failing
\* property's entry has zero counts and carries an error message.
C17_SummaryUnderPropertyFailure ==
    (answer.op = "summary" /\ "list" \notin answer.failed) =>
        LET entries == answer.result.summary.propertiesSummary
        IN  /\ answer.result.success
            /\ OneEntryPerProperty(answer.result.summary)
            /\ \A k \in 1..Len(entries) :
                  entries[k].propertyId \in answer.failed =>
                      /\ entries[k].totalExpenses = 0
                      /\ entries[k].recurringExpenses = 0
                      /\ entries[k].expenses = <<>>
                      /\ entries[k].error

(***************************************************************************)
(* C18.  Invalid months are rejected (checked under SpecValidate).         *)
(***************************************************************************)
\* The key of a period container names a month 01..12.
KeyOfValidMonth(periodKey) == ParsePeriodKey(periodKey).month \in 1..12

\* C18: building a period key or period location for month 0 or month 13
\* fails with an invalid-period error, so no operation reads or writes a
\* period container whose key has a month outside 01..12: a validation, in
\* which no store read fails, of periods with such a month fails, and none
\* of the containers it reads has such a key.
C18_InvalidMonthsRejected ==
    (answer.op = "validate" /\ faults = 0) =>
        /\ \A ref \in answer.reads :
              ref.periodKey # "" => KeyOfValidMonth(ref.periodKey)
        /\ (answer.result.periods.sourceMonth \notin 1..12
              \/ answer.result.periods.targetMonth \notin 1..12)
               => ~answer.result.success

(***************************************************************************)
(* C19.  Period enumeration (checked under SpecRead).                      *)
(***************************************************************************)
\* The enumeration a lists the period of the key.
Listed(a, periodKey) ==
    \E k \in 1..Len(a.result) : a.result[k].periodKey = periodKey

\* The enumeration a is exactly the periods of its property that hold at
\* least one item in the store, each once, ascending by (year, month).
ExactlyPeriodsWithItems(a) ==
    LET r == a.result
    IN  /\ \A d \in a.store :
              d.property = a.propertyId =>
                  Cardinality({k \in 1..Len(r) : r[k].periodKey = d.periodKey}) = 1
        /\ \A k \in 1..Len(r) :
              /\ hasItems(a.store, a.propertyId, r[k].periodKey)
              /\ PeriodKey(r[k].year, r[k].month) = r[k].periodKey
        /\ \A i, j \in 1..Len(r) :
              i < j => \/ r[i].year < r[j].year
                       \/ (r[i].year = r[j].year /\ r[i].month < r[j].month)

\* The target period of a finished run is listed when the run created an
\* item of the property in it, and is not listed when it holds no item, as
\* after a dry run or a run whose writes all failed.
TargetsListedWhenCreated(a) ==
    \A n \in 1..Len(log) :
        LET key == PeriodKey(log[n].dates.targetYear, log[n].dates.targetMonth)
            created == {d \in a.store : /\ d.property = a.propertyId
                                        /\ d.periodKey = key
                                        /\ d.data.generatedFrom # NoLineage}
        IN  /\ created # {} => Listed(a, key)
            /\ ~hasItems(a.store, a.propertyId, key) => ~Listed(a, key)

\* C19 as stated: listExpensePeriods for a property returns exactly the
\* periods whose item collection holds at least one item, each once, sorted
\* ascending by (year, month); consequently a target period touched only by
\* a dry run or by a run whose writes all failed is not listed, and a target
\* period in which a non-dry run created an item is listed.
C19_PeriodEnumeration ==
    (answer.op = "periods" /\ answer.at = started /\ run[1].pc = "idle") =>
        /\ ExactlyPeriodsWithItems(answer)
        /\ TargetsListedWhenCreated(answer)

\* C19 amended: the same for an enumeration none of whose reads fails; an
\* enumeration with a failed read returns the empty sequence.
C19_PeriodEnumerationWhenRead ==
    (answer.op = "periods" /\ answer.at = started /\ run[1].pc = "idle") =>
        IF answer.ok
        THEN /\ ExactlyPeriodsWithItems(answer)
             /\ TargetsListedWhenCreated(answer)
        ELSE answer.result = <<>>

\* An enumeration, read without failure over a store with a period document
\* that holds no items, after a run that was not a dry run created an item
\* of the property in its target period: it lists that period after the
\* source period, and not the empty one.
C19_Witness ==
    /\ answer.op = "periods" /\ answer.at = started /\ run[1].pc = "idle"
    /\ answer.ok
    /\ answer.emptyDocs # {}
    /\ Len(answer.result) >= 2
    /\ \E n \in 1..Len(log) :
          /\ ~log[n].dryRun
          /\ log[n].created > 0
          /\ Listed(answer, PeriodKey(log[n].dates.targetYear,
                                      log[n].dates.targetMonth))
          /\ \E d \in answer.store :
                /\ d.property = answer.propertyId
                /\ d.periodKey = PeriodKey(log[n].dates.targetYear,
                                           log[n].dates.targetMonth)
                /\ d.data.generatedFrom # NoLineage

(***************************************************************************)
(* C20.  Direction of the scheduled run (checked under Spec).              *)
(***************************************************************************)
\* The request names no period: the body the monthly workflow sends.
NoOverrides(options) ==
    /\ options.sourceYear = 0 /\ options.sourceMonth = 0
    /\ options.targetYear = 0 /\ options.targetMonth = 0

\* The calendar month before the month of the date.
MonthBefore(today) ==
    IF today[2] = 1 THEN <<today[1] - 1, 12>> ELSE <<today[1], today[2] - 1>>

\* C20: a generate call without period overrides takes the recurring
\* expenses of the month before the current calendar month and replicates
\* them into the current month: a run without overrides in which no store
\* operation failed and which created items read the previous month as its
\* source and wrote the current month as its target.
C20_ScheduledRunDirection ==
    \A n \in 1..Len(log) :
        (NoOverrides(log[n].options) /\ ~log[n].dryRun /\ faults = 0
            /\ log[n].created > 0) =>
            /\ <<log[n].dates.sourceYear, log[n].dates.sourceMonth>>
                   = MonthBefore(log[n].today)
            /\ <<log[n].dates.targetYear, log[n].dates.targetMonth>> = log[n].today

(***************************************************************************)
(* C21.  Semantics of the duplicate check.                                 *)
(***************************************************************************)
\* The recurring source documents of the property that have an item with
\* equal description and amount in the property's own target period.
MatchedInTarget(store, propertyId, dates) ==
    {s \in RecurringDocs(store, propertyId, dates.sourceYear, dates.sourceMonth) :
        \E d \in PeriodDocs(store, propertyId, dates.targetYear, dates.targetMonth) :
            SameKey(d.data, s.data)}

\* C21: within a run, a recurring source item of a property is skipped
\* (skipped incremented, no write) exactly when the property's target period
\* contains an item with equal description and equal amount, and is otherwise
\* created; an equal item in another property's target never causes a skip.
\* Stated for runs that write and in which no store operation fails: the
\* items skipped are those matched in the property's own target period, the
\* others are written, and no item is written into a target period that
\* contains its equal.
C21_DuplicateCheckSemantics ==
    faults = 0 =>
        \A k \in LogIndex : \A n \in 1..Len(log[k].byProperty) :
            LET e == log[k]
                row == e.byProperty[n]
            IN  ~e.dryRun =>
                /\ row.created = Cardinality(WritesOf(e.id, row.propertyId))
                /\ row.created + row.skipped = row.recurring
                /\ row.skipped >=
                      Cardinality(MatchedInTarget(e.store0, row.propertyId, e.dates))
                /\ \A w \in WritesOf(e.id, row.propertyId) :
                      \A d \in PresentAtAdd(w) : ~SameKey(d.data, w.data)

(***************************************************************************)
(* C22.  Sequential processing inside one run.                             *)
(***************************************************************************)
\* The place of a property in the listing.
OrderOf(propertyId) ==
    CHOOSE k \in 1..Len(PropertyOrder) : PropertyOrder[k] = propertyId

\* The operations on properties, in the order the run issued them, never go
\* back to an earlier property, and every add to a property's target period
\* comes after the read of that target period.
SequentialOps(ops) ==
    /\ \A a, b \in 1..Len(ops) :
          (a < b /\ ops[a].kind # "list" /\ ops[b].kind # "list") =>
              OrderOf(ops[a].propertyId) <= OrderOf(ops[b].propertyId)
    /\ \A b \in 1..Len(ops) :
          ops[b].kind = "add" =>
              \E a \in 1..(b - 1) :
                  ops[a].kind = "target" /\ ops[a].propertyId = ops[b].propertyId

\* C22: inside one run every store read and write for property i completes
\* before any store operation for property i+1 begins, and for each property
\* the read of its target period precedes all of that property's writes;
\* each operation is awaited, so a run has one operation in flight at a time.
C22_SequentialProcessing ==
    /\ \A k \in LogIndex : SequentialOps(log[k].ops)
    /\ \A r \in Slots : SequentialOps(run[r].ops)

\* A finished run read and wrote for two properties, one after the other.
C22_Witness ==
    \E k \in LogIndex :
        \E a, b \in 1..Len(log[k].ops) :
            /\ a < b
            /\ log[k].ops[a].kind = "add" /\ log[k].ops[a].propertyId = "p1"
            /\ log[k].ops[b].kind = "add" /\ log[k].ops[b].propertyId = "p2"

(***************************************************************************)
(* C23.  Period fields match the container.                                *)
(***************************************************************************)
\* The document carries the year and month of the period that holds it.
FieldsMatchContainer(d) == d.periodKey = PeriodKey(d.data.year, d.data.month)

\* C23: every item written by generate is stored in the item collection
\* keyed by the run's target period and has year and month fields equal to
\* that target period, so after any sequence of generate runs each generated
\* item's (year, month) equals the period of the container holding it.
C23_PeriodFieldsMatchContainer ==
    /\ \A w \in written :
          /\ w.periodKey = PeriodKey(w.dates.targetYear, w.dates.targetMonth)
          /\ w.data.year = w.dates.targetYear
          /\ w.data.month = w.dates.targetMonth
          /\ \E d \in expenses :
                /\ d.docId = w.docId
                /\ d.property = w.propertyId
                /\ d.periodKey = w.periodKey
                /\ d.data = w.data
    /\ \A d \in expenses :
          d.data.generatedFrom # NoLineage => FieldsMatchContainer(d)

\* Two runs wrote: an item of November was copied into December, and an item
\* of December into November, each under the period of its new container.
C23_Witness ==
    \E v \in written, w \in written :
        /\ v.run # w.run
        /\ v.source.month = 11 /\ v.data.month = 12 /\ v.periodKey = "2025-12"
        /\ w.source.month = 12 /\ w.data.month = 11 /\ w.periodKey = "2025-11"

(***************************************************************************)
(* C24.  The toggle of the recurring flag (checked under SpecToggle).      *)
(***************************************************************************)
\* The documents the toggle of answer a names, in the store given.
ToggledDocs(a, store) ==
    {d \in store : /\ d.property = a.propertyId
                   /\ d.periodKey = PeriodKey(a.year, a.month)
                   /\ d.docId = a.expenseId}

\* Document e is document d with isRecurring set to the value of the toggle
\* a and a new updatedAt, every other field as it was.
OnlyFlagChanged(a, d, e) ==
    /\ e.data.isRecurring = (IF a.isRecurring THEN "true" ELSE "false")
    /\ e = [d EXCEPT !.data.isRecurring = e.data.isRecurring,
                     !.data.updatedAt = e.data.updatedAt]

\* The step is a toggle with this frame: on an existing item it changes at
\* most that item, and of it only isRecurring and updatedAt; on an item that
\* does not exist it returns success = false; a toggle that returns failure
\* leaves the store as it was; nothing but expense documents changes.
ToggleFrame ==
    LET a == answer'
        named == ToggledDocs(a, expenses)
    IN  /\ UNCHANGED <<properties, units, incomes, nextId>>
        /\ named = {} => ~a.result.success
        /\ ~a.result.success => expenses' = expenses
        /\ a.result.success =>
              /\ \A d \in expenses \ named : d \in expenses'
              /\ \A d \in named : \E e \in expenses' : OnlyFlagChanged(a, d, e)
              /\ Cardinality(expenses') = Cardinality(expenses)

\* Entry e is the generate run invoked right after the successful toggle of
\* `answer`, and it takes the period of the toggled item as its source.
NextRunAfterToggle(e) ==
    /\ answer.op = "toggle"
    /\ answer.result.success
    /\ e.id = answer.at + 1
    /\ e.success
    /\ e.dates.sourceYear = answer.year
    /\ e.dates.sourceMonth = answer.month

\* The adds of run e that copy the item toggled by `answer`.
CopiesOfToggled(e) ==
    {w \in written :
        /\ w.run = e.id
        /\ w.propertyId = answer.propertyId
        /\ \E d \in ToggledDocs(answer, e.store0) : w.source = Spread(d)}

\* The target period of run e held, at its start, an item with the
\* description and amount of the item toggled by `answer`.
ToggledHasEqualInTarget(e) ==
    \E d \in ToggledDocs(answer, e.store0) :
        \E t \in PeriodDocs(e.store0, answer.propertyId, e.dates.targetYear,
                            e.dates.targetMonth) : SameKey(t.data, d.data)

\* The run invoked right after a successful toggle over the period of the
\* toggled item copied the item if it was toggled to true, and did not copy
\* it if it was toggled to false.
NextRunFollowsFlag ==
    \A k \in LogIndex :
        NextRunAfterToggle(log[k]) =>
            IF answer.isRecurring
            THEN CopiesOfToggled(log[k]) # {}
            ELSE CopiesOfToggled(log[k]) = {}

\* The same, the copy of an item toggled to true being claimed of a run that
\* is not a dry run, in which no store operation fails and whose target
\* period did not already hold an item with its description and amount.
NextRunFollowsFlagUnlessDuplicate ==
    \A k \in LogIndex :
        NextRunAfterToggle(log[k]) =>
            IF answer.isRecurring
            THEN (FaultFree(log[k]) /\ ~log[k].dryRun
                      /\ ~ToggledHasEqualInTarget(log[k]))
                    => CopiesOfToggled(log[k]) # {}
            ELSE CopiesOfToggled(log[k]) = {}

C25_ReportedIdsAreDocumentIds ==
    (answer.op = "summary" /\ faults = 0) =>
        LET entries == answer.result.summary.propertiesSummary
        IN  \A n \in 1..Len(entries) : \A k \in 1..Len(entries[n].expenses) :
                \E d \in PeriodDocs(answer.store, entries[n].propertyId,
                                    answer.year, answer.month) :
                    /\ d.docId = entries[n].expenses[k].id
                    /\ SameKey(d.data, entries[n].expenses[k])

(***************************************************************************)
(* C26.  No write without a successful duplicate check.                    *)
(***************************************************************************)
\* C26: generate writes items for a property only after the read of that
\* property's target period succeeded; if that read fails the run creates
\* nothing for the property, so an item already present in the target period
\* is never re-created because of a failed read.
C26_NoWriteWithoutDuplicateCheck ==
    \A k \in LogIndex :
        /\ \A b \in 1..Len(log[k].ops) :
              log[k].ops[b].kind = "add" =>
                  \E a \in 1..(b - 1) :
                      /\ log[k].ops[a].kind = "target"
                      /\ log[k].ops[a].propertyId = log[k].ops[b].propertyId
                      /\ log[k].ops[a].ok
        /\ \A n \in 1..Len(log[k].byProperty) :
              log[k].byProperty[n].propertyId \in log[k].targetFailed =>
                  /\ log[k].byProperty[n].created = 0
                  /\ WritesOf(log[k].id, log[k].byProperty[n].propertyId) = {}

(***************************************************************************)
(* C27.  Validation agrees with generation (checked under SpecValidate).   *)
(***************************************************************************)
\* Entry e is the generate call invoked right after the validation of
\* `answer`, with the same periods in its request, on the same day and on
\* the store the validation saw.
GenerateAfterValidate(e) ==
    /\ answer.op = "validate"
    /\ e.id = answer.at + 1
    /\ SamePeriodOptions(e.options, answer.options)
    /\ e.today = answer.today
    /\ e.store0 = answer.store

\* C27: if validate returns canGenerate = true and the store does not
\* change, generate invoked immediately afterwards with the same options
\* returns success = true, in particular when the store holds no
\* properties.  Stated for behaviours in which no store operation fails.
C27_ValidationAgreesWithGeneration ==
    faults = 0 =>
        \A k \in LogIndex :
            (GenerateAfterValidate(log[k]) /\ answer.result.canGenerate)
                => log[k].success

(***************************************************************************)
(* C28.  Count conservation.                                               *)
(***************************************************************************)
RECURSIVE SumCreated(_, _)
\* The created counts of the first n rows, added up.
SumCreated(rows, n) == IF n = 0 THEN 0 ELSE SumCreated(rows, n - 1) + rows[n].created

RECURSIVE SumSkipped(_, _)
\* The skipped counts of the first n rows, added up.
SumSkipped(rows, n) == IF n = 0 THEN 0 ELSE SumSkipped(rows, n - 1) + rows[n].skipped

\* The item-scoped errors of the run for the property.
ItemErrors(e, propertyId) ==
    Cardinality({n \in 1..Len(e.errors) :
                    e.errors[n].type = "expense" /\ e.errors[n].propertyId = propertyId})

\* The recurring documents of the property's source period at the start of
\* the run are as many as its items created, skipped and in error.
RowConserved(e, row) ==
    row.created + row.skipped + ItemErrors(e, row.propertyId) =
        Cardinality(RecurringDocs(e.store0, row.propertyId,
                                  e.dates.sourceYear, e.dates.sourceMonth))

\* The counts of the run are the sums over its properties and the summary
\* repeats them.
TotalsConserved(e) ==
    /\ Len(e.byProperty) = Cardinality(properties)
    /\ e.created = SumCreated(e.byProperty, Len(e.byProperty))
    /\ e.skipped = SumSkipped(e.byProperty, Len(e.byProperty))
    /\ e.totalCreated = e.created
    /\ e.totalSkipped = e.skipped
    /\ e.totalErrors = Len(e.errors)

\* C28 as stated: on every run that returns success, for each property
\* created + skipped + number of item-scoped errors equals the number of
\* that property's source items with isRecurring = true; the run's created
\* and skipped are the sums over properties, summary.totalCreated and
\* totalSkipped equal them, and summary.totalErrors equals the length of the
\* error list.
C28_CountConservation ==
    \A k \in LogIndex :
        log[k].success =>
            /\ TotalsConserved(log[k])
            /\ \A n \in 1..Len(log[k].byProperty) :
                  RowConserved(log[k], log[k].byProperty[n])

\* C28 amended: the same, the count of a property being claimed when the
\* read of its source period did not fail.
C28_CountConservationOfReadSources ==
    \A k \in LogIndex :
        log[k].success =>
            /\ TotalsConserved(log[k])
            /\ \A n \in 1..Len(log[k].byProperty) :
                  log[k].byProperty[n].propertyId \notin log[k].sourceFailed =>
                      RowConserved(log[k], log[k].byProperty[n])

\* A run over two properties created the item of one and recorded the error
\* of the other.
C28_Witness ==
    \E k \in LogIndex :
        /\ log[k].success
        /\ Len(log[k].byProperty) = 2
        /\ log[k].byProperty[1].created = 1
        /\ log[k].byProperty[2].errors = 1
        /\ log[k].created = 1 /\ log[k].totalErrors = 1

(***************************************************************************)
(* C29.  A target period equal to the source period.                       *)
(***************************************************************************)
\* The run was asked to copy a period into itself.
TargetIsSource(e) ==
    /\ e.dates.targetYear = e.dates.sourceYear
    /\ e.dates.targetMonth = e.dates.sourceMonth

\* The run wrote nothing and skipped every recurring item of its source.
NothingButSkips(e) ==
    /\ e.store1 = e.store0
    /\ \A w \in written : w.run # e.id
    /\ e.created = 0
    /\ e.skipped = RecurringSourceCount(e.store0, e.dates)

\* C29 as stated: generate invoked with target period equal to source
\* period, which the engine does not reject, writes nothing, because every
\* recurring source item matches itself in the duplicate check; it reports
\* created = 0 and skipped = number of recurring source items.
C29_TargetEqualSourceNoOp ==
    \A k \in LogIndex :
        (log[k].success /\ TargetIsSource(log[k])) => NothingButSkips(log[k])

\* C29 amended: the same for a run none of whose store reads fails.
C29_TargetEqualSourceNoOpWhenRead ==
    \A k \in LogIndex :
        (log[k].success /\ TargetIsSource(log[k]) /\ ReadsSucceeded(log[k]))
            => NothingButSkips(log[k])

\* A run that was not a dry run, asked to copy a period into itself, read
\* two recurring items and skipped both.
C29_Witness ==
    \E k \in LogIndex :
        /\ log[k].success /\ ~log[k].dryRun
        /\ TargetIsSource(log[k])
        /\ ReadsSucceeded(log[k])
        /\ log[k].skipped = 2
        /\ log[k].created = 0

(***************************************************************************)
(* C30.  Month-to-month chaining.                                          *)
(***************************************************************************)
\* Entry a is a run from a period P into P+1 and entry b the next run, from
\* P+1 into P+2, on the store run a left; both write.
Chained(a, b) ==
    /\ a.success /\ b.success
    /\ ~a.dryRun /\ ~b.dryRun
    /\ b.id = a.id + 1
    /\ b.store0 = a.store1
    /\ <<a.dates.targetYear, a.dates.targetMonth>>
           = MonthAfter(a.dates.sourceYear, a.dates.sourceMonth)
    /\ b.dates.sourceYear = a.dates.targetYear
    /\ b.dates.sourceMonth = a.dates.targetMonth
    /\ <<b.dates.targetYear, b.dates.targetMonth>>
           = MonthAfter(b.dates.sourceYear, b.dates.sourceMonth)

\* At the start of run a the recurring items of P have pairwise distinct
\* (description, amount) in each property and the two later periods are
\* empty, and no write of the two runs fails.
ChainStartsClean(a, b) ==
    /\ a.writeFailed = {} /\ b.writeFailed = {}
    /\ \A p \in properties :
          /\ \A s, t \in RecurringDocs(a.store0, p, a.dates.sourceYear,
                                       a.dates.sourceMonth) :
                SameKey(s.data, t.data) => s = t
          /\ PeriodDocs(a.store0, p, a.dates.targetYear, a.dates.targetMonth) = {}
          /\ PeriodDocs(a.store0, p, b.dates.targetYear, b.dates.targetMonth) = {}

\* The period of the property holds exactly one item with the description
\* and amount of s.
HoldsOnce(store, propertyId, year, month, s) ==
    Cardinality({d \in PeriodDocs(store, propertyId, year, month) :
                    SameKey(d.data, s.data)}) = 1

\* After run b each recurring item of P is once in P+1 and once in P+2.
EachObligationOnce(a, b) ==
    \A p \in properties :
        \A s \in RecurringDocs(a.store0, p, a.dates.sourceYear, a.dates.sourceMonth) :
            /\ HoldsOnce(b.store1, p, a.dates.targetYear, a.dates.targetMonth, s)
            /\ HoldsOnce(b.store1, p, b.dates.targetYear, b.dates.targetMonth, s)

====
